---- MODULE Spec2Model ----
(***************************************************************************)
(* A model of advanced-vector/vector.h: RawMemory<T> (an owner of a raw    *)
(* block) and Vector<T> (a growable array built on it).                    *)
(*                                                                         *)
(* The heap is a set of blocks, each a sequence of slots.  A slot is raw   *)
(* (no object lives there), live (an object with a value) or moved (an     *)
(* object that has been moved from: alive, its value unspecified).         *)
(* Every public operation of Vector is one action; the element type's      *)
(* constructors and assignments may throw, which the actions take as an    *)
(* input (a failure plan).                                                 *)
(***************************************************************************)
EXTENDS Integers, Sequences, FiniteSets, TLC

VARIABLES
    mem,     \* the heap: blocks, and what has gone wrong in it so far
    vec,     \* the Vector objects: data_ (buffer_, capacity_), size_
    T,       \* the element type's traits (fixed by the instantiation)
    last,    \* what the last operation was and how it ended
    abs,     \* the abstract sequence the operations on "A" are compared with
    track,   \* which history the run has had (see Init)
    raw      \* the RawMemory objects that are not the data_ of a Vector

vars == <<mem, vec, T, last, abs, track, raw>>

\* ---------------------------------------------------------------- bounds
MaxCap == 4        \* no block of more than MaxCap slots is allocated
MaxVal == 2        \* element values are 1..MaxVal (0 is the value-constructed one)
NumBlocks == 4     \* block addresses 1..NumBlocks (0 is nullptr)
MaxCopyCap == 2    \* the capacity bound where two Vectors are in play
MaxFail == 2       \* a bulk transfer fails at its 1st .. MaxFail-th element, or not

SizeBits == 4      \* size_t is SizeBits wide: size_ is counted modulo 2^SizeBits

Values == 1..MaxVal
BlockIds == 1..NumBlocks
VecNames == {"A", "B"}
RawNames == {"R1", "R2"}

\* ------------------------------------------------------------- elements
RawSlot == [st |-> "raw", val |-> 0]
LiveSlot(v) == [st |-> "live", val |-> v]
MovedSlot == [st |-> "moved", val |-> 0]
IsObj(s) == s.st # "raw"

\* The traits of T that vector.h asks about (line 307), and which of T's
\* operations can throw: a copy always may, a move only if it is not noexcept.
Traits == { [nothrowMove |-> TRUE,  copyable |-> TRUE],
            [nothrowMove |-> FALSE, copyable |-> TRUE],
            [nothrowMove |-> TRUE,  copyable |-> FALSE],
            [nothrowMove |-> FALSE, copyable |-> FALSE] }

\* A failure plan: which of the fallible steps of one call throw.
\*   alloc  : operator new throws
\*   ctor   : the constructor of the new element (or the first one) throws
\*   first  : the k-th element operation of the first bulk transfer throws
\*   second : the k-th element operation of the second bulk transfer throws
\* (0: none; a k beyond the number of operations performed: none).
NoFail == [alloc |-> FALSE, ctor |-> FALSE, first |-> 0, second |-> 0]
Plans == { [NoFail EXCEPT !.alloc = TRUE], [NoFail EXCEPT !.ctor = TRUE] }
         \cup { [NoFail EXCEPT !.first = i, !.second = j] :
                    i \in 0..MaxFail, j \in 0..MaxFail }
\* The plans of a call with one bulk transfer and no constructor call of its own.
TransferPlans == { p \in Plans : ~p.ctor /\ p.second = 0 }

\* ------------------------------------------------------------------ heap
FreeBlock == [used |-> FALSE, slot |-> <<>>]
EmptyMem == [blk |-> [b \in BlockIds |-> FreeBlock],
             ub |-> FALSE,      \* a raw slot was read or assigned to
             dd |-> FALSE,      \* a slot holding no object was destroyed
             leak |-> FALSE,    \* an object was lost: built over, or freed alive
             dfree |-> FALSE]   \* a block was released that was not allocated

NullMemory == [buf |-> 0, cap |-> 0]

\* RawMemory::Allocate: nullptr for n = 0, else a fresh block of n raw slots.
Allocate(m, n) ==
    IF n = 0 THEN [m |-> m, buf |-> 0]
    ELSE LET b == CHOOSE x \in BlockIds :
                    /\ ~m.blk[x].used
                    /\ \A y \in BlockIds : ~m.blk[y].used => x <= y
         IN [m |-> [m EXCEPT !.blk[b] = [used |-> TRUE,
                                         slot |-> [i \in 1..n |-> RawSlot]]],
             buf |-> b]

\* RawMemory::Deallocate (operator delete): a no-op on nullptr.
Deallocate(m, b) ==
    IF b = 0 THEN m
    ELSE IF ~m.blk[b].used THEN [m EXCEPT !.dfree = TRUE]
    ELSE [m EXCEPT !.blk[b] = FreeBlock,
                   !.leak = m.leak \/ \E i \in 1..Len(m.blk[b].slot) :
                                          IsObj(m.blk[b].slot[i])]

\* explicit RawMemory(capacity) (vector.h 15-18): the data of the object
\* built, or a throw of operator new, which leaves no object.
RawMemoryCreate(m, n, plan) ==
    LET a == Allocate(m, n)
    IN IF plan.alloc /\ n # 0
       THEN [m |-> m, data |-> NullMemory, out |-> "throw"]
       ELSE [m |-> a.m, data |-> [buf |-> a.buf, cap |-> n], out |-> "ok"]

\* RawMemory(RawMemory&& other) (vector.h 23-26).
RawMemoryMoveConstruct(other) == [l |-> other, r |-> NullMemory]

\* The assignment that forgets the block it held.
RawMemoryMoveAssign_NoRelease(m, l, r) == [m |-> m, l |-> r, r |-> NullMemory]

\* RawMemory::operator=(RawMemory&& rhs) with this != &rhs (vector.h 28-35).
RawMemoryMoveAssign(m, l, r) ==
    [m |-> Deallocate(m, l.buf), l |-> r, r |-> NullMemory]

\* RawMemory::Swap (vector.h 60-63).
RawMemorySwap(l, r) == [l |-> r, r |-> l]

\* RawMemory::~RawMemory (vector.h 37-39).
RawMemoryDestroy(m, d) == Deallocate(m, d.buf)

\* Slot i (0-based offset) of block b.
At(m, b, i) == m.blk[b].slot[i + 1]

\* What reading the object at a slot yields; a raw slot yields garbage g.
Load(m, b, i, g) == IF IsObj(At(m, b, i)) THEN At(m, b, i) ELSE LiveSlot(g)

\* placement new: an object with content c comes to live at the slot.
Construct(m, b, i, c) ==
    [m EXCEPT !.blk[b].slot[i + 1] = c,
              !.leak = m.leak \/ IsObj(At(m, b, i))]

\* Assignment to the object at the slot (operator=).
Assign(m, b, i, c) ==
    IF IsObj(At(m, b, i)) THEN [m EXCEPT !.blk[b].slot[i + 1] = c]
    ELSE [m EXCEPT !.ub = TRUE]

\* std::move leaves the source object alive, its value given away.
MarkMoved(m, b, i) ==
    IF IsObj(At(m, b, i)) THEN [m EXCEPT !.blk[b].slot[i + 1] = MovedSlot]
    ELSE [m EXCEPT !.ub = TRUE]

\* Vector::Destroy: buf->~T().
Destroy(m, b, i) ==
    IF IsObj(At(m, b, i)) THEN [m EXCEPT !.blk[b].slot[i + 1] = RawSlot]
    ELSE [m EXCEPT !.dd = TRUE]

\* Vector::DestroyN (and std::destroy_n): slots i .. i+n-1 in order.
RECURSIVE DestroyN(_, _, _, _)
DestroyN(m, b, i, n) ==
    IF n <= 0 THEN m ELSE DestroyN(Destroy(m, b, i), b, i + 1, n - 1)

\* ------------------------------------------------------- bulk transfers
\* An element is copy-constructed at (db, di) from the object at (sb, si).
CopyAt(m, sb, si, db, di, g) ==
    LET c == Load(m, sb, si, g)
        m1 == IF IsObj(At(m, sb, si)) THEN m ELSE [m EXCEPT !.ub = TRUE]
    IN Construct(m1, db, di, c)

\* An element is move-constructed at (db, di) from the object at (sb, si).
MoveAt(m, sb, si, db, di, g) ==
    MarkMoved(CopyAt(m, sb, si, db, di, g), sb, si)

\* The object at (db, di) is move-assigned from the object at (sb, si).
MoveAssignAt(m, sb, si, db, di, g) ==
    LET c == Load(m, sb, si, g)
    IN IF sb = db /\ si = di THEN m
       ELSE MarkMoved(Assign(m, db, di, c), sb, si)

\* The object at (db, di) is copy-assigned from the object at (sb, si).
CopyAssignAt(m, sb, si, db, di, g) ==
    LET c == Load(m, sb, si, g)
        m1 == IF IsObj(At(m, sb, si)) THEN m ELSE [m EXCEPT !.ub = TRUE]
    IN Assign(m1, db, di, c)

\* How many element operations of a transfer of n complete when the
\* failAt-th throws.
Done(n, failAt) == IF failAt \in 1..n THEN failAt - 1 ELSE n
Thrown(n, failAt) == failAt \in 1..n

RECURSIVE CopyRange(_, _, _, _, _, _, _)
CopyRange(m, sb, si, n, db, di, g) ==
    IF n <= 0 THEN m
    ELSE CopyRange(CopyAt(m, sb, si, db, di, g), sb, si + 1, n - 1, db, di + 1, g)

RECURSIVE MoveRange(_, _, _, _, _, _, _)
MoveRange(m, sb, si, n, db, di, g) ==
    IF n <= 0 THEN m
    ELSE MoveRange(MoveAt(m, sb, si, db, di, g), sb, si + 1, n - 1, db, di + 1, g)

\* std::uninitialized_copy_n: n objects built in raw storage from the n at
\* the source, in order; if one construction throws, those built are destroyed.
\* The copy loop without its rollback: what was built stays built.
UninitializedCopyN_NoRollback(m, sb, si, n, db, di, failAt, g) ==
    [m |-> CopyRange(m, sb, si, Done(n, failAt), db, di, g),
     thrown |-> Thrown(n, failAt)]

UninitializedCopyN(m, sb, si, n, db, di, failAt, g) ==
    LET k == Done(n, failAt)
        built == CopyRange(m, sb, si, k, db, di, g)
    IN IF Thrown(n, failAt)
       THEN [m |-> DestroyN(built, db, di, k), thrown |-> TRUE]
       ELSE [m |-> built, thrown |-> FALSE]

\* std::uninitialized_move_n: as above by move construction; the sources of
\* the objects built before a throw stay moved-from.
UninitializedMoveN(m, sb, si, n, db, di, failAt, g) ==
    LET f == IF T.nothrowMove THEN 0 ELSE failAt
        k == Done(n, f)
        built == MoveRange(m, sb, si, k, db, di, g)
    IN IF Thrown(n, f)
       THEN [m |-> DestroyN(built, db, di, k), thrown |-> TRUE]
       ELSE [m |-> built, thrown |-> FALSE]

\* The transfer that moves whatever the element type is.
CopyOrMoveData_AlwaysMove(m, sb, si, n, db, di, failAt, g) ==
    UninitializedMoveN(m, sb, si, n, db, di, failAt, g)

\* Vector::CopyOrMoveData.
CopyOrMoveData(m, sb, si, n, db, di, failAt, g) ==
    IF T.nothrowMove \/ ~T.copyable
    THEN UninitializedMoveN(m, sb, si, n, db, di, failAt, g)
    ELSE UninitializedCopyN(m, sb, si, n, db, di, failAt, g)

\* std::move(first, last, d_first) inside block b: the k-th assignment
\* moves slot first+k-1 into slot d_first+k-1.
RECURSIVE MoveForwardRange(_, _, _, _, _, _)
MoveForwardRange(m, b, fst, dfst, k, g) ==
    IF k <= 0 THEN m
    ELSE MoveForwardRange(MoveAssignAt(m, b, fst, b, dfst, g),
                          b, fst + 1, dfst + 1, k - 1, g)

MoveForward(m, b, fst, lst, dfst, failAt, g) ==
    LET n == lst - fst
        f == IF T.nothrowMove THEN 0 ELSE failAt
    IN [m |-> MoveForwardRange(m, b, fst, dfst, Done(n, f), g),
        thrown |-> Thrown(n, f)]

\* std::move_backward(first, last, d_last) inside block b: the k-th
\* assignment moves slot last-k into slot d_last-k.
RECURSIVE MoveBackwardRange(_, _, _, _, _, _)
MoveBackwardRange(m, b, lst, dlst, k, g) ==
    IF k <= 0 THEN m
    ELSE MoveBackwardRange(MoveAssignAt(m, b, lst - 1, b, dlst - 1, g),
                           b, lst - 1, dlst - 1, k - 1, g)

\* The shift done front to back, as std::move would do it.
MoveBackward_Forward(m, b, fst, lst, dlst, failAt, g) ==
    MoveForward(m, b, fst, lst, dlst - (lst - fst), failAt, g)

MoveBackward(m, b, fst, lst, dlst, failAt, g) ==
    LET n == lst - fst
        f == IF T.nothrowMove THEN 0 ELSE failAt
    IN [m |-> MoveBackwardRange(m, b, lst, dlst, Done(n, f), g),
        thrown |-> Thrown(n, f)]

\* std::copy(first, last, d_first) from block sb to block db.
RECURSIVE CopyAssignRange(_, _, _, _, _, _, _)
CopyAssignRange(m, sb, si, n, db, di, g) ==
    IF n <= 0 THEN m
    ELSE CopyAssignRange(CopyAssignAt(m, sb, si, db, di, g),
                         sb, si + 1, n - 1, db, di + 1, g)

\* The copy that assigns nothing.
StdCopy_Skip(m, sb, si, n, db, di, failAt, g) == [m |-> m, thrown |-> FALSE]

StdCopy(m, sb, si, n, db, di, failAt, g) ==
    [m |-> CopyAssignRange(m, sb, si, Done(n, failAt), db, di, g),
     thrown |-> Thrown(n, failAt)]

\* std::uninitialized_value_construct_n: n value-constructed objects; if
\* one construction throws, those built are destroyed.
RECURSIVE ValueRange(_, _, _, _)
ValueRange(m, b, i, n) ==
    IF n <= 0 THEN m ELSE ValueRange(Construct(m, b, i, LiveSlot(0)), b, i + 1, n - 1)

\* The construction loop without its rollback: what was built stays built.
UninitializedValueConstructN_NoRollback(m, b, i, n, failAt) ==
    [m |-> ValueRange(m, b, i, Done(n, failAt)), thrown |-> Thrown(n, failAt)]

\* The objects default-initialized instead: an int is left with what the
\* memory held, here 1.
UninitializedValueConstructN_Default(m, b, i, n, failAt) ==
    [m |-> [m EXCEPT !.blk[b].slot =
                 [j \in DOMAIN @ |-> IF j - 1 \in i .. i + n - 1
                                     THEN LiveSlot(1) ELSE @[j]]],
     thrown |-> FALSE]

UninitializedValueConstructN(m, b, i, n, failAt) ==
    LET k == Done(n, failAt)
        built == ValueRange(m, b, i, k)
    IN IF Thrown(n, failAt)
       THEN [m |-> DestroyN(built, b, i, k), thrown |-> TRUE]
       ELSE [m |-> built, thrown |-> FALSE]

\* ---------------------------------------------------------------- Vector
EmptyVector == [data |-> NullMemory, size |-> 0, alive |-> TRUE]
NoVector == [data |-> NullMemory, size |-> 0, alive |-> FALSE]

\* The result of one call: the heap and the Vector after it, whether it
\* returned or threw, the index it returned, the path it took and which of
\* its bulk transfers threw.
Res(m, v, out, ret, path, f1, f2) ==
    [m |-> m, v |-> v, out |-> out, ret |-> ret, path |-> path,
     f1 |-> f1, f2 |-> f2]

\* Growth by one slot instead of doubling.
NewCapacity_PlusOne(cap) == cap + 1

\* The capacity Emplace grows to (vector.h 203-208).
NewCapacity(cap) == IF cap = 0 THEN 1 ELSE cap * 2

\* Vector::Emplace, size_ < Capacity() (vector.h 189-201).
EmplaceInPlace(m, v, pos, val, plan, g) ==
    LET b == v.data.buf
        n == v.size
    IN IF plan.ctor THEN Res(m, v, "throw", pos, "inplace", FALSE, FALSE)
       ELSE IF pos = n
       THEN Res(Construct(m, b, n, LiveSlot(val)), [v EXCEPT !.size = n + 1],
                "ok", pos, "inplace", FALSE, FALSE)
       ELSE LET um == UninitializedMoveN(m, b, n - 1, 1, b, n, plan.first, g)
                mb == MoveBackward(um.m, b, pos, n - 1, n, plan.second, g)
                lastThrows == ~T.nothrowMove /\ plan.second = n - pos
                fin == Assign(mb.m, b, pos, LiveSlot(val))
            IN IF um.thrown
               THEN Res(um.m, v, "throw", pos, "inplace", TRUE, FALSE)
               ELSE IF mb.thrown
               THEN Res(mb.m, v, "throw", pos, "inplace", FALSE, TRUE)
               ELSE IF lastThrows
               THEN Res(mb.m, v, "throw", pos, "inplace", FALSE, TRUE)
               ELSE Res(fin, [v EXCEPT !.size = n + 1], "ok", pos, "inplace",
                        FALSE, FALSE)

\* The new block kept allocated when the call is left by a throw.
DiscardNewData_Leak(m, nb) == m

\* ~RawMemory of new_data when Emplace is left by a throw (vector.h 37-39).
DiscardNewData(m, nb) == Deallocate(m, nb)

\* Vector::Emplace, size_ == Capacity() (vector.h 203-229).  The handlers
\* of the two try blocks destroy part of the new block and then fall
\* through: nothing is rethrown.
EmplaceRealloc(m, v, pos, val, plan, g) ==
    LET ob == v.data.buf
        n == v.size
        a == Allocate(m, NewCapacity(v.data.cap))
        nb == a.buf
        m1 == Construct(a.m, nb, pos, LiveSlot(val))
        pre == IF n # 0
               THEN CopyOrMoveData(m1, ob, 0, pos, nb, 0, plan.first, g)
               ELSE [m |-> m1, thrown |-> FALSE]
        m2 == IF pre.thrown THEN Destroy(pre.m, nb, pos) ELSE pre.m
        suf == CopyOrMoveData(m2, ob, pos, n - pos, nb, pos + 1, plan.second, g)
        m3 == IF suf.thrown THEN DestroyN(suf.m, nb, 0, pos) ELSE suf.m
        m4 == DestroyN(m3, ob, 0, n)
        m5 == Deallocate(m4, ob)
    IN IF plan.alloc THEN Res(m, v, "throw", pos, "realloc", FALSE, FALSE)
       ELSE IF plan.ctor
       THEN Res(DiscardNewData(a.m, nb), v, "throw", pos, "realloc", FALSE, FALSE)
       ELSE Res(m5, [v EXCEPT !.data = [buf |-> nb, cap |-> NewCapacity(v.data.cap)],
                              !.size = n + 1],
                "ok", pos, "realloc", pre.thrown, suf.thrown)

\* Vector::Emplace(pos, args...): pos is the index begin() + pos.
Emplace(m, v, pos, val, plan, g) ==
    IF v.size < v.data.cap THEN EmplaceInPlace(m, v, pos, val, plan, g)
    ELSE EmplaceRealloc(m, v, pos, val, plan, g)

\* What the constructor of the new element reads through the reference
\* value, which refers to slot i of the Vector's block.
ReadArg(m, b, i, g) == Load(m, b, i, g).val

\* The assignment of line 197 without the temporary: *nc_pos = value reads
\* through the reference once the elements have been shifted.
ArgAtAssignment_NoTemporary(tmp, m, b, i, g) == ReadArg(m, b, i, g)

\* What line 197 assigns to *nc_pos: the temporary built at line 194.
ArgAtAssignment(tmp, m, b, i, g) == tmp

\* Vector::Emplace(pos, v[i]) where nothing throws: the argument is a
\* reference to the element at index i of the same Vector.  At the end
\* (line 191) and in the new block (line 211) the element is constructed from
\* it at once; in the middle (lines 194-197) a temporary is, and the
\* temporary is assigned once the elements have been shifted.
EmplaceRef(m, v, pos, i, g) ==
    LET b == v.data.buf
        n == v.size
        tmp == ReadArg(m, b, i, g)
        um == UninitializedMoveN(m, b, n - 1, 1, b, n, 0, g)
        mb == MoveBackward(um.m, b, pos, n - 1, n, 0, g)
        fin == Assign(mb.m, b, pos, LiveSlot(ArgAtAssignment(tmp, mb.m, b, i, g)))
    IN IF n < v.data.cap
       THEN IF pos = n
            THEN EmplaceInPlace(m, v, pos, ReadArg(m, b, i, g), NoFail, g)
            ELSE Res(fin, [v EXCEPT !.size = n + 1], "ok", pos, "inplace",
                     FALSE, FALSE)
       ELSE EmplaceRealloc(m, v, pos, ReadArg(m, b, i, g), NoFail, g)

\* Vector::Erase(pos) (vector.h 237-243).
Erase(m, v, pos, plan, g) ==
    LET b == v.data.buf
        n == v.size
        sh == MoveForward(m, b, pos + 1, n, pos, plan.first, g)
    IN IF sh.thrown THEN Res(sh.m, v, "throw", pos, "none", TRUE, FALSE)
       ELSE Res(Destroy(sh.m, b, n - 1), [v EXCEPT !.size = n - 1],
                "ok", pos, "none", FALSE, FALSE)

\* Vector::PopBack (vector.h 252-255), on a Vector that is not empty.
PopBack(m, v) ==
    Res(Destroy(m, v.data.buf, v.size - 1), [v EXCEPT !.size = v.size - 1],
        "ok", 0, "none", FALSE, FALSE)

\* Vector::PopBack on a Vector with size_ == 0.  Nothing in lines 252-255
\* checks size_: end() - 1 points before the block (or is nullptr - 1) and
\* Destroy is called on it, which is undefined.  The build either runs on
\* (the stray destructor call does nothing that shows, as for an int) and
\* --size_ wraps around, or the process is killed there.
PopBackEmpty(m, v, outcome) ==
    IF outcome = "ok"
    THEN Res([m EXCEPT !.ub = TRUE],
             [v EXCEPT !.size = (v.size - 1) % (2 ^ SizeBits)],
             "ok", 0, "none", FALSE, FALSE)
    ELSE Res([m EXCEPT !.ub = TRUE], v, "abort", 0, "none", FALSE, FALSE)

\* Vector::operator[] with index >= size_ in a build with assertions: the
\* assert of line 178 fails and the process is aborted.
IndexBreach(m, v, i) == Res(m, v, "abort", i, "none", FALSE, FALSE)

\* The comparison made strict.
HasCapacity_Strict(newCap, cap) == newCap < cap

\* Whether Reserve has the capacity asked for already (vector.h 266).
HasCapacity(newCap, cap) == newCap <= cap

\* Vector::Reserve (vector.h 265-274).
Reserve(m, v, newCap, plan, g) ==
    LET ob == v.data.buf
        a == Allocate(m, newCap)
        nb == a.buf
        tr == CopyOrMoveData(a.m, ob, 0, v.size, nb, 0, plan.first, g)
        m2 == DestroyN(tr.m, ob, 0, v.size)
    IN IF HasCapacity(newCap, v.data.cap)
       THEN Res(m, v, "ok", 0, "none", FALSE, FALSE)
       ELSE IF plan.alloc THEN Res(m, v, "throw", 0, "realloc", FALSE, FALSE)
       ELSE IF tr.thrown
       THEN Res(Deallocate(tr.m, nb), v, "throw", 0, "realloc", TRUE, FALSE)
       ELSE Res(Deallocate(m2, ob), [v EXCEPT !.data = [buf |-> nb, cap |-> newCap]],
                "ok", 0, "realloc", FALSE, FALSE)

\* Vector::Resize (vector.h 276-285).
Resize(m, v, newSize, plan, g) ==
    LET r == Reserve(m, v, newSize, plan, g)
        vc == UninitializedValueConstructN(r.m, r.v.data.buf, v.size,
                                           newSize - v.size, plan.second)
    IN IF newSize < v.size
       THEN Res(DestroyN(m, v.data.buf, newSize, v.size - newSize),
                [v EXCEPT !.size = newSize], "ok", 0, "none", FALSE, FALSE)
       ELSE IF newSize > v.size
       THEN IF r.out = "throw" THEN r
            ELSE IF vc.thrown THEN Res(vc.m, r.v, "throw", 0, r.path, FALSE, TRUE)
            ELSE Res(vc.m, [r.v EXCEPT !.size = newSize], "ok", 0, r.path,
                     FALSE, FALSE)
       ELSE Res(m, v, "ok", 0, "none", FALSE, FALSE)

\* Vector::operator[] used to write: v[i] = val, with i < size_.
IndexAssign(m, v, i, val) ==
    Res(Assign(m, v.data.buf, i, LiveSlot(val)), v, "ok", i, "none", FALSE, FALSE)

\* Vector::~Vector, then ~RawMemory of data_ (vector.h 150-152, 37-39).
Destruct(m, v) ==
    Res(Deallocate(DestroyN(m, v.data.buf, 0, v.size), v.data.buf), NoVector,
        "ok", 0, "none", FALSE, FALSE)

\* The result of a call on two Vectors: this (l) and other/rhs (r).
Res2(m, l, r, out, path, f1, f2) ==
    [m |-> m, l |-> l, r |-> r, out |-> out, path |-> path, f1 |-> f1, f2 |-> f2]

\* The swap that forgets size_.
Swap_DataOnly(l, r) == [l |-> [l EXCEPT !.data = r.data],
                        r |-> [r EXCEPT !.data = l.data]]

\* Vector::Swap / RawMemory::Swap (vector.h 291-294, 60-63).
Swap(l, r) == [l |-> [l EXCEPT !.data = r.data, !.size = r.size],
               r |-> [r EXCEPT !.data = l.data, !.size = l.size]]

\* The copy that takes the other's block instead of a block of its own.
CopyConstruct_Shallow(m, other, plan, g) ==
    Res(m, [data |-> other.data, size |-> other.size, alive |-> TRUE],
        "ok", 0, "realloc", FALSE, FALSE)

\* Vector(const Vector& other) (vector.h 108-113): the Vector built, or a
\* throw after which data_ has been destroyed again.
CopyConstruct(m, other, plan, g) ==
    LET a == Allocate(m, other.size)
        nb == a.buf
        cp == UninitializedCopyN(a.m, other.data.buf, 0, other.size, nb, 0,
                                 plan.first, g)
    IN IF plan.alloc /\ other.size # 0
       THEN Res(m, NoVector, "throw", 0, "realloc", FALSE, FALSE)
       ELSE IF cp.thrown
       THEN Res(Deallocate(cp.m, nb), NoVector, "throw", 0, "realloc", TRUE, FALSE)
       ELSE Res(cp.m, [data |-> [buf |-> nb, cap |-> other.size],
                       size |-> other.size, alive |-> TRUE],
                "ok", 0, "realloc", FALSE, FALSE)

\* Vector(Vector&& other) (vector.h 115-120).
MoveConstruct(m, other) ==
    LET sw == Swap(EmptyVector, other)
    IN Res2(m, sw.l, sw.r, "ok", "none", FALSE, FALSE)

\* operator=(const Vector& rhs), rhs.size_ > Capacity() (vector.h 124-126, 138).
CopyAssignSwap(m, l, r, plan, g) ==
    LET c == CopyConstruct(m, r, plan, g)
        sw == Swap(l, c.v)
        d == Destruct(c.m, sw.r)
    IN IF c.out = "throw" THEN Res2(c.m, l, r, "throw", "realloc", c.f1, FALSE)
       ELSE Res2(d.m, [sw.l EXCEPT !.size = r.size], r, "ok", "realloc", FALSE, FALSE)

\* operator=(const Vector& rhs), rhs.size_ <= Capacity() (vector.h 127-138).
CopyAssignInPlace(m, l, r, plan, g) ==
    LET lb == l.data.buf
        rb == r.data.buf
        shrink == l.size > r.size
        cp == StdCopy(m, rb, 0, IF shrink THEN r.size ELSE l.size, lb, 0,
                      plan.first, g)
        cut == DestroyN(cp.m, lb, r.size, l.size - r.size)
        ext == UninitializedCopyN(cp.m, rb, l.size, r.size - l.size, lb, l.size,
                                  plan.second, g)
    IN IF cp.thrown THEN Res2(cp.m, l, r, "throw", "inplace", TRUE, FALSE)
       ELSE IF shrink
       THEN Res2(cut, [l EXCEPT !.size = r.size], r, "ok", "inplace", FALSE, FALSE)
       ELSE IF ext.thrown THEN Res2(ext.m, l, r, "throw", "inplace", FALSE, TRUE)
       ELSE Res2(ext.m, [l EXCEPT !.size = r.size], r, "ok", "inplace", FALSE, FALSE)

\* operator=(const Vector& rhs) with this != &rhs (vector.h 122-141).
CopyAssign(m, l, r, plan, g) ==
    IF r.size > l.data.cap THEN CopyAssignSwap(m, l, r, plan, g)
    ELSE CopyAssignInPlace(m, l, r, plan, g)

\* operator=(Vector&& rhs) with this != &rhs (vector.h 143-148).
MoveAssign(m, l, r) ==
    LET sw == Swap(l, r)
    IN Res2(m, sw.l, sw.r, "ok", "none", FALSE, FALSE)

\* --------------------------------------------------------------- actions
A == vec["A"]
B == vec["B"]

\* The elements of a Vector as its user sees them: slots 0 .. size_-1.
Elems(m, v) == [i \in 1..v.size |-> m.blk[v.data.buf].slot[i]]

\* The abstract sequence as elements.
AbsElems(q) == [i \in 1..Len(q) |-> LiveSlot(q[i])]

InsertAt(q, pos, val) == SubSeq(q, 1, pos) \o <<val>> \o SubSeq(q, pos + 1, Len(q))
RemoveAt(q, pos) == SubSeq(q, 1, pos) \o SubSeq(q, pos + 2, Len(q))

\* The values a read of raw memory may yield in a call on v: any value if
\* the call can read a raw slot, and of no account otherwise.
Garbage(v) ==
    IF \E i \in 1..vec[v].size : ~IsObj(mem.blk[vec[v].data.buf].slot[i])
    THEN Values ELSE {1}

\* Whether the call ran without any failure inside it.
Clean(r) == r.out = "ok" /\ ~r.f1 /\ ~r.f2

\* What a call leaves to be seen of itself: its name, its Vector, its
\* other Vector (src: the one copied or moved from, else v itself), its
\* numeric argument (a position, a capacity, a size), its value argument,
\* and how it ended.
Event(op, v, src, arg, val, r) ==
    [op |-> op, v |-> v, src |-> src, arg |-> arg, val |-> val, out |-> r.out,
     ret |-> r.ret, path |-> r.path, f1 |-> r.f1, f2 |-> r.f2]

\* A call on the one Vector v ends with result r; q is what the abstract
\* sequence becomes if the call belongs to the tracked history.
Finish(op, v, arg, val, r, seqOp, q) ==
    /\ mem' = r.m
    /\ vec' = [vec EXCEPT ![v] = r.v]
    /\ T' = T
    /\ last' = Event(op, v, v, arg, val, r)
    /\ raw' = raw
    /\ LET keep == track.seq /\ seqOp /\ v = "A" /\ Clean(r)
       IN /\ abs' = IF keep THEN q ELSE <<>>
          /\ track' = [track EXCEPT !.seq = keep,
                                    !.copy = track.copy /\ op # "Destruct"]

CanGrow(v) == vec[v].size < vec[v].data.cap
              \/ NewCapacity(vec[v].data.cap) <= MaxCap

\* The program is followed up to its first undefined operation: what it
\* does after one is not the program's to decide.
Defined == ~mem.ub /\ ~mem.dd /\ ~mem.dfree

PushBackCall(v, val, plan) ==
    /\ Defined /\ vec[v].alive /\ CanGrow(v)
    /\ \E g \in Garbage(v) :
         Finish("PushBack", v, vec[v].size, val, Emplace(mem, vec[v], vec[v].size, val, plan, g),
                TRUE, Append(abs, val))

InsertCall(v, pos, val, plan) ==
    /\ Defined /\ vec[v].alive /\ CanGrow(v)
    /\ pos \in 0..vec[v].size
    /\ \E g \in Garbage(v) :
         Finish("Insert", v, pos, val, Emplace(mem, vec[v], pos, val, plan, g),
                TRUE, InsertAt(abs, pos, val))

EraseCall(v, pos, plan) ==
    /\ Defined /\ vec[v].alive
    /\ pos \in 0..vec[v].size - 1
    /\ \E g \in Garbage(v) :
         Finish("Erase", v, pos, 0, Erase(mem, vec[v], pos, plan, g), TRUE, RemoveAt(abs, pos))

PopBackCall(v) ==
    /\ Defined /\ vec[v].alive
    /\ vec[v].size > 0
    /\ Finish("PopBack", v, 0, 0, PopBack(mem, vec[v]), TRUE,
              SubSeq(abs, 1, Len(abs) - 1))

ReserveCall(v, n, plan) ==
    /\ Defined /\ vec[v].alive
    /\ \E g \in Garbage(v) :
         Finish("Reserve", v, n, 0, Reserve(mem, vec[v], n, plan, g), FALSE, abs)

ResizeCall(v, n, plan) ==
    /\ Defined /\ vec[v].alive
    /\ \E g \in Garbage(v) :
         Finish("Resize", v, n, 0, Resize(mem, vec[v], n, plan, g), FALSE, abs)

IndexAssignCall(v, i, val) ==
    /\ Defined /\ vec[v].alive
    /\ i \in 0..vec[v].size - 1
    /\ Finish("IndexAssign", v, i, val, IndexAssign(mem, vec[v], i, val), FALSE, abs)

DestructCall(v) ==
    /\ Defined /\ vec[v].alive
    /\ Finish("Destruct", v, 0, 0, Destruct(mem, vec[v]), FALSE, abs)

\* PopBack called on an empty Vector.
PopBackEmptyCall(v, outcome) ==
    /\ Defined /\ vec[v].alive
    /\ vec[v].size = 0
    /\ Finish("PopBack", v, 0, 0, PopBackEmpty(mem, vec[v], outcome), FALSE, abs)

\* v[i] = val with i >= size_.
IndexBreachCall(v, i, val) ==
    /\ Defined /\ vec[v].alive
    /\ i >= vec[v].size
    /\ Finish("IndexAssign", v, i, val, IndexBreach(mem, vec[v], i), FALSE, abs)

\* The process has not been aborted.
Running == last.out # "abort"

\* v.Insert(v.begin() + pos, v[i]), the overload taking const T&, which
\* copies; the event records i as its value.
InsertRefCall(v, pos, i) ==
    /\ Defined /\ vec[v].alive /\ CanGrow(v) /\ T.copyable
    /\ pos \in 0..vec[v].size
    /\ i \in 0..vec[v].size - 1
    /\ \E g \in Garbage(v) :
         Finish("InsertRef", v, pos, i, EmplaceRef(mem, vec[v], pos, i, g),
                TRUE, InsertAt(abs, pos, abs[i + 1]))

\* v.PushBack(v[i]); the event records i as its value.
PushBackRefCall(v, i) ==
    /\ Defined /\ vec[v].alive /\ CanGrow(v) /\ T.copyable
    /\ i \in 0..vec[v].size - 1
    /\ \E g \in Garbage(v) :
         Finish("PushBackRef", v, vec[v].size, i,
                EmplaceRef(mem, vec[v], vec[v].size, i, g),
                TRUE, Append(abs, abs[i + 1]))

\* Vector() (vector.h 99): a Vector comes to be where none is.
DefaultConstructCall(v) ==
    /\ Defined /\ ~vec[v].alive
    /\ Finish("Vector", v, 0, 0, Res(mem, EmptyVector, "ok", 0, "none", FALSE, FALSE),
              FALSE, abs)

\* A call on Vector l with the other Vector r ends with result rr (a Res2).
\* A successful copy of "A" into "B" starts the history in which "B" is a
\* copy of "A"; a move ends it.
Finish2(op, l, r, rr) ==
    /\ mem' = rr.m
    /\ vec' = [vec EXCEPT ![l] = rr.l, ![r] = IF l = r THEN rr.l ELSE rr.r]
    /\ T' = T
    /\ last' = Event(op, l, r, 0, 0,
                     Res(rr.m, rr.l, rr.out, 0, rr.path, rr.f1, rr.f2))
    /\ abs' = <<>>
    /\ raw' = raw
    /\ track' = [seq |-> FALSE,
                 copy |-> IF op \in {"CopyConstruct", "CopyAssign"}
                          THEN (l = "B" /\ r = "A" /\ rr.out = "ok")
                               \/ (track.copy /\ (rr.out = "throw" \/ l = r))
                          ELSE FALSE]

\* B(A): the copy constructor; a throw leaves no Vector behind.
CopyConstructCall(l, r, plan) ==
    /\ Defined /\ ~vec[l].alive /\ vec[r].alive /\ T.copyable /\ l # r
    /\ \E g \in Garbage(r) :
         LET c == CopyConstruct(mem, vec[r], plan, g)
         IN Finish2("CopyConstruct", l, r,
                    Res2(c.m, c.v, vec[r], c.out, c.path, c.f1, c.f2))

\* B(std::move(A)): the move constructor.
MoveConstructCall(l, r) ==
    /\ Defined /\ ~vec[l].alive /\ vec[r].alive /\ l # r
    /\ Finish2("MoveConstruct", l, r, MoveConstruct(mem, vec[r]))

\* l = r: copy assignment; with this == &rhs nothing is done.
CopyAssignCall(l, r, plan) ==
    /\ Defined /\ vec[l].alive /\ vec[r].alive /\ T.copyable
    /\ \E g \in Garbage(r) :
         Finish2("CopyAssign", l, r,
                 IF l = r
                 THEN Res2(mem, vec[l], vec[r], "ok", "none", FALSE, FALSE)
                 ELSE CopyAssign(mem, vec[l], vec[r], plan, g))

\* l = std::move(r): move assignment; with this == &rhs nothing is done.
MoveAssignCall(l, r) ==
    /\ Defined /\ vec[l].alive /\ vec[r].alive
    /\ Finish2("MoveAssign", l, r,
               IF l = r
               THEN Res2(mem, vec[l], vec[r], "ok", "none", FALSE, FALSE)
               ELSE MoveAssign(mem, vec[l], vec[r]))

\* l.Swap(r) on two Vectors.
SwapCall(l, r) ==
    /\ Defined /\ vec[l].alive /\ vec[r].alive
    /\ LET sw == Swap(vec[l], vec[r])
       IN Finish2("Swap", l, r, Res2(mem, sw.l, sw.r, "ok", "none", FALSE, FALSE))

\* No RawMemory object is there / the one that is there.
NoRawMemory == [data |-> NullMemory, alive |-> FALSE]
SomeRawMemory(d) == [data |-> d, alive |-> TRUE]

\* A call on the RawMemory l with the other RawMemory r ends: the heap is
\* m, the two objects are lv and rv.
FinishRaw(op, l, r, arg, m, lv, rv, out) ==
    /\ mem' = m
    /\ raw' = [raw EXCEPT ![l] = lv, ![r] = IF l = r THEN lv ELSE rv]
    /\ last' = Event(op, l, r, arg, 0, Res(m, 0, out, 0, "none", FALSE, FALSE))
    /\ UNCHANGED <<vec, T, abs, track>>

\* RawMemory r(n).
RawCreateCall(r, n, plan) ==
    /\ Defined /\ ~raw[r].alive
    /\ LET c == RawMemoryCreate(mem, n, plan)
       IN FinishRaw("RawMemory", r, r, n, c.m,
                    IF c.out = "ok" THEN SomeRawMemory(c.data) ELSE NoRawMemory,
                    NoRawMemory, c.out)

\* RawMemory l(std::move(r)).
RawMoveConstructCall(l, r) ==
    /\ Defined /\ ~raw[l].alive /\ raw[r].alive /\ l # r
    /\ LET mv == RawMemoryMoveConstruct(raw[r].data)
       IN FinishRaw("RawMoveConstruct", l, r, 0, mem,
                    SomeRawMemory(mv.l), SomeRawMemory(mv.r), "ok")

\* l = std::move(r) on two RawMemory objects; with this == &rhs nothing is done.
RawMoveAssignCall(l, r) ==
    /\ Defined /\ raw[l].alive /\ raw[r].alive
    /\ LET mv == RawMemoryMoveAssign(mem, raw[l].data, raw[r].data)
       IN IF l = r THEN FinishRaw("RawMoveAssign", l, r, 0, mem, raw[l], raw[r], "ok")
          ELSE FinishRaw("RawMoveAssign", l, r, 0, mv.m,
                         SomeRawMemory(mv.l), SomeRawMemory(mv.r), "ok")

\* l.Swap(r) on two RawMemory objects.
RawSwapCall(l, r) ==
    /\ Defined /\ raw[l].alive /\ raw[r].alive
    /\ LET sw == RawMemorySwap(raw[l].data, raw[r].data)
       IN FinishRaw("RawSwap", l, r, 0, mem,
                    SomeRawMemory(sw.l), SomeRawMemory(sw.r), "ok")

\* The RawMemory r goes out of scope.
RawDestroyCall(r) ==
    /\ Defined /\ raw[r].alive
    /\ FinishRaw("RawDestroy", r, r, 0, RawMemoryDestroy(mem, raw[r].data),
                 NoRawMemory, NoRawMemory, "ok")

\* The bound on growth where two Vectors are in play.
Fits(v) == vec[v].size < vec[v].data.cap
           \/ NewCapacity(vec[v].data.cap) <= MaxCopyCap

\* --------------------------------------------------------- specification
Init ==
    /\ mem = EmptyMem
    /\ vec = [v \in VecNames |-> IF v = "A" THEN EmptyVector ELSE NoVector]
    /\ T \in Traits
    /\ last = [op |-> "Vector", v |-> "A", src |-> "A", arg |-> 0, val |-> 0, out |-> "ok",
               ret |-> 0, path |-> "none", f1 |-> FALSE, f2 |-> FALSE]
    /\ abs = <<>>
    /\ track = [seq |-> TRUE, copy |-> FALSE]
    /\ raw = [r \in RawNames |-> NoRawMemory]

\* The insertions and removals on one Vector, every failure the element
\* type and the allocator allow included.
Next ==
    \/ \E val \in Values, plan \in Plans : PushBackCall("A", val, plan)
    \/ \E pos \in 0..MaxCap, val \in Values, plan \in Plans :
          InsertCall("A", pos, val, plan)
    \/ \E pos \in 0..MaxCap, plan \in TransferPlans : EraseCall("A", pos, plan)
    \/ PopBackCall("A")
    \/ DestructCall("A")
    \/ DefaultConstructCall("A")

Spec == Init /\ [][Next]_vars

\* The insertions and removals when nothing fails, and Reserve.
NextSeq ==
    \/ \E val \in Values : PushBackCall("A", val, NoFail)
    \/ \E pos \in 0..MaxCap, val \in Values : InsertCall("A", pos, val, NoFail)
    \/ \E pos \in 0..MaxCap : EraseCall("A", pos, NoFail)
    \/ PopBackCall("A")
    \/ \E n \in 0..MaxCap, plan \in TransferPlans : ReserveCall("A", n, plan)

SpecSeq == Init /\ [][NextSeq]_vars

\* Two Vectors, each built by PushBack and PopBack, and moves between them.
NextMove ==
    \/ \E v \in VecNames, val \in Values :
          Fits(v) /\ PushBackCall(v, val, NoFail)
    \/ \E v \in VecNames : PopBackCall(v)
    \/ DefaultConstructCall("B")
    \/ MoveConstructCall("B", "A")
    \/ \E l \in VecNames, r \in VecNames : MoveAssignCall(l, r)
    \/ DestructCall("B")

SpecMove == Init /\ [][NextMove]_vars

\* "A" is built by PushBack; then "B" is constructed, empty or as a copy of
\* "A", assigned "A" (either copy may fail) and mutated.  The element type
\* is one that can be copied.
InitCopy == Init /\ T.copyable

NextCopy ==
    \/ \E val \in Values : ~B.alive /\ Fits("A") /\ PushBackCall("A", val, NoFail)
    \/ DefaultConstructCall("B")
    \/ \E plan \in TransferPlans : CopyConstructCall("B", "A", plan)
    \/ \E plan \in Plans : CopyAssignCall("B", "A", plan)
    \/ CopyAssignCall("B", "B", NoFail)
    \/ \E val \in Values : Fits("B") /\ PushBackCall("B", val, NoFail)
    \/ \E pos \in 0..MaxCopyCap, val \in Values :
          Fits("B") /\ InsertCall("B", pos, val, NoFail)
    \/ \E pos \in 0..MaxCopyCap : EraseCall("B", pos, NoFail)
    \/ PopBackCall("B")
    \/ \E n \in 0..MaxCopyCap : ReserveCall("B", n, NoFail)
    \/ \E n \in 0..MaxCopyCap : ResizeCall("B", n, NoFail)
    \/ \E i \in 0..MaxCopyCap, val \in Values : IndexAssignCall("B", i, val)

SpecCopy == InitCopy /\ [][NextCopy]_vars

\* The plans of Resize: the allocation, the transfer of Reserve (first) and
\* the value construction of the new elements (second) may throw.
ResizePlans == { p \in Plans : ~p.ctor }

\* A Vector grown by PushBack and resized, each Resize failing where it can.
NextResize ==
    \/ \E val \in Values : PushBackCall("A", val, NoFail)
    \/ PopBackCall("A")
    \/ \E n \in 0..MaxCap, plan \in ResizePlans : ResizeCall("A", n, plan)

SpecResize == Init /\ [][NextResize]_vars

\* Nothing but PushBack on a default-constructed Vector: abs is the
\* sequence of the values pushed, one for each call.
NextPush == \E val \in Values : PushBackCall("A", val, NoFail)

SpecPush == Init /\ [][NextPush]_vars

\* The calls that keep their preconditions and the two that break them:
\* PopBack on an empty Vector and an index that is out of range.
NextBreach ==
    \/ \E val \in Values : Running /\ PushBackCall("A", val, NoFail)
    \/ Running /\ PopBackCall("A")
    \/ \E outcome \in {"ok", "abort"} : Running /\ PopBackEmptyCall("A", outcome)
    \/ \E i \in 0..MaxCap, val \in Values : Running /\ IndexAssignCall("A", i, val)
    \/ \E i \in 0..MaxCap, val \in Values : Running /\ IndexBreachCall("A", i, val)

SpecBreach == Init /\ [][NextBreach]_vars

\* Blocks change hands: two Vectors that grow, are moved, swapped and
\* destroyed, and two RawMemory objects that are built, moved, swapped and
\* destroyed.  The RawMemory objects are put to work while the Vectors hold
\* no block, the Vectors while no RawMemory object is there.
RawIdle == \A r \in RawNames : ~raw[r].alive
VecIdle == \A v \in VecNames : vec[v].data.buf = 0

NextOwn ==
    \/ \E v \in VecNames, val \in Values :
          RawIdle /\ Fits(v) /\ PushBackCall(v, val, NoFail)
    \/ \E v \in VecNames : RawIdle /\ PopBackCall(v)
    \/ RawIdle /\ DefaultConstructCall("B")
    \/ RawIdle /\ MoveConstructCall("B", "A")
    \/ \E l \in VecNames, r \in VecNames : RawIdle /\ MoveAssignCall(l, r)
    \/ \E l \in VecNames, r \in VecNames : RawIdle /\ SwapCall(l, r)
    \/ RawIdle /\ DestructCall("B")
    \/ \E r \in RawNames, n \in 0..MaxCopyCap,
          plan \in {NoFail, [NoFail EXCEPT !.alloc = TRUE]} :
          VecIdle /\ RawCreateCall(r, n, plan)
    \/ \E l \in RawNames, r \in RawNames : RawMoveConstructCall(l, r)
    \/ \E l \in RawNames, r \in RawNames : RawMoveAssignCall(l, r)
    \/ \E l \in RawNames, r \in RawNames : RawSwapCall(l, r)
    \/ \E r \in RawNames : RawDestroyCall(r)

SpecOwn == Init /\ [][NextOwn]_vars

\* Insertions whose argument is an element of the Vector itself, on a
\* Vector built by PushBack, PopBack and Reserve.
NextAlias ==
    \/ \E val \in Values : PushBackCall("A", val, NoFail)
    \/ PopBackCall("A")
    \/ \E n \in 0..MaxCap : ReserveCall("A", n, NoFail)
    \/ \E pos \in 0..MaxCap, i \in 0..MaxCap : InsertRefCall("A", pos, i)
    \/ \E i \in 0..MaxCap : PushBackRefCall("A", i)

SpecAlias == Init /\ [][NextAlias]_vars

\* ---------------------------------------------------------------- claims
\* The data-model invariant of one Vector: size_ <= capacity, slots
\* [0, size_) hold objects, slots [size_, capacity) are raw.
WellFormed(m, v) ==
    /\ v.size <= v.data.cap
    /\ IF v.data.buf = 0 THEN v.data.cap = 0
       ELSE /\ m.blk[v.data.buf].used
            /\ Len(m.blk[v.data.buf].slot) = v.data.cap
            /\ \A i \in 1..v.data.cap :
                  IsObj(m.blk[v.data.buf].slot[i]) <=> i <= v.size

IsEmplace(e) == e.op \in {"PushBack", "Insert"}

\* C1: after any sequence of non-failing PushBack, PopBack, Insert and Erase
\* on a default-constructed Vector, Size() and the elements equal those of
\* the abstract sequence on which the same operations were applied, and an
\* insertion returned the index at which the new element sits.
C1_SequenceRefinement ==
    track.seq =>
        /\ A.size = Len(abs)
        /\ Elems(mem, A) = AbsElems(abs)
        /\ IsEmplace(last) =>
              /\ last.ret = last.arg
              /\ last.ret < A.size
              /\ Elems(mem, A)[last.ret + 1] = LiveSlot(last.val)

\* An insertion into the middle of three elements that had to reallocate,
\* and one that shifted in place, have happened.
C1_Witness ==
    /\ track.seq
    /\ last.op = "Insert" /\ last.path = "inplace"
    /\ last.arg = 1 /\ A.size = 4
    /\ abs[1] # abs[2] /\ abs[3] # abs[4]

\* C2: when the prefix transfer of a reallocating Emplace fails, the Vector
\* (size, capacity, block, every element) is what it was before the call and
\* nothing built in the new block is left.  Stated for element types that
\* are relocated by copy, where the old elements are not touched.
C2_PrefixFailureRollsBack ==
    [][ (IsEmplace(last') /\ last'.path = "realloc" /\ last'.f1 /\ T.copyable)
           => (vec' = vec /\ mem' = mem) ]_vars

\* C3: when the prefix transfer succeeds and the suffix transfer fails, the
\* Vector is what it was before the call: the new block is adopted and the
\* size incremented only after both transfers succeeded.
C3_SuffixFailureRollsBack ==
    [][ (IsEmplace(last') /\ last'.path = "realloc" /\ ~last'.f1 /\ last'.f2
            /\ T.copyable)
           => (vec' = vec /\ mem' = mem) ]_vars

\* C4: a reallocating Emplace one of whose transfers failed ends by
\* throwing; it never returns normally.
C4_TransferFailurePropagates ==
    (IsEmplace(last) /\ last.path = "realloc" /\ (last.f1 \/ last.f2))
        => last.out = "throw"

\* C5: in every reachable state, after failed calls too, every Vector
\* satisfies the data-model invariant.
C5_DataModelInvariant ==
    \A v \in VecNames : vec[v].alive => WellFormed(mem, vec[v])

\* C6: every object built in a Vector's storage is destroyed exactly once:
\* no slot without an object is destroyed, no object is alive when its block
\* is released or is built over, and the destructor leaves nothing behind.
C6_DestroyedExactlyOnce ==
    /\ ~mem.dd
    /\ ~mem.leak
    /\ (\A v \in VecNames : ~vec[v].alive) =>
          \A b \in BlockIds : ~mem.blk[b].used

IsMove(e) == e.op \in {"MoveConstruct", "MoveAssign"} /\ e.v # e.src

\* C7 as stated: after a Vector is moved into another, by move construction
\* or by move assignment to a Vector in any state, the source has size 0 and
\* capacity 0.
C7_MovedFromIsEmpty ==
    IsMove(last) => vec[last.src].size = 0 /\ vec[last.src].data.cap = 0

\* C7 as amended: after move construction the source has size 0 and
\* capacity 0; after move assignment the source holds what the destination
\* held before (its block, capacity and size), and the destination what the
\* source held.
C7_MoveExchanges ==
    [][ IsMove(last') =>
           LET d == last'.v
               s == last'.src
           IN /\ vec'[d].data = vec[s].data /\ vec'[d].size = vec[s].size
              /\ mem' = mem
              /\ IF last'.op = "MoveConstruct"
                 THEN vec'[s].size = 0 /\ vec'[s].data = NullMemory
                 ELSE vec'[s].size = vec[d].size /\ vec'[s].data = vec[d].data
       ]_vars

\* "A", holding two elements, has been move-assigned to "B", which held one.
C7_Witness ==
    /\ last.op = "MoveAssign" /\ last.v = "B" /\ last.src = "A"
    /\ A.size = 1 /\ B.size = 2 /\ A.data.cap # B.data.cap

MutatingOps == {"PushBack", "PopBack", "Insert", "Erase", "Resize", "Reserve",
                "IndexAssign"}

\* C8: once "B" has been made a copy of "A", "B" has a block of its own and
\* no mutating operation on "B" changes the size, the block or any element
\* of "A".
C8_CopyIsIndependent ==
    /\ [](track.copy /\ B.alive /\ B.data.buf # 0 => B.data.buf # A.data.buf)
    /\ [][ (track.copy /\ last'.v = "B" /\ last'.op \in MutatingOps) =>
              /\ A' = A
              /\ Elems(mem', A') = Elems(mem, A) ]_vars

\* "B", a copy of a two-element "A", has been written to and differs from it.
C8_Witness ==
    /\ track.copy /\ last.v = "B" /\ last.op = "IndexAssign"
    /\ A.size = 2 /\ B.size = 2
    /\ Elems(mem, A)[1] # Elems(mem, B)[1]
    /\ Elems(mem, A)[2] = Elems(mem, B)[2]

\* C9: a copy assignment with rhs.size_ > Capacity() in which the copy of an
\* element into the temporary throws leaves both Vectors and the heap as they
\* were: what was copied is destroyed and the temporary's block released.
C9_CopyAssignStrong ==
    [][ (last'.op = "CopyAssign" /\ last'.path = "realloc" /\ last'.f1) =>
           /\ last'.out = "throw"
           /\ vec' = vec
           /\ mem' = mem ]_vars

\* Such an assignment of a two-element "A" to a "B" holding an element has
\* thrown.
C9_Witness ==
    /\ last.op = "CopyAssign" /\ last.path = "realloc" /\ last.f1
    /\ last.v = "B" /\ last.src = "A"
    /\ A.size = 2 /\ B.size = 1 /\ B.data.cap = 1

\* C10: a successful Reserve(n) changes neither Size() nor any element;
\* with n <= Capacity() it changes nothing at all (capacity, block, heap),
\* otherwise Capacity() becomes exactly n.
C10_ReserveFrame ==
    [][ (last'.op = "Reserve" /\ last'.out = "ok") =>
           /\ A'.size = A.size
           /\ Elems(mem', A') = Elems(mem, A)
           /\ IF last'.arg <= A.data.cap
              THEN vec' = vec /\ mem' = mem
              ELSE A'.data.cap = last'.arg /\ A'.data.buf # A.data.buf ]_vars

\* A Reserve that had to grow a Vector holding two different elements, to a
\* capacity that doubling does not produce, has succeeded.
C10_Witness ==
    /\ last.op = "Reserve" /\ last.out = "ok" /\ last.path = "realloc"
    /\ last.arg = 3 /\ A.data.cap = 3 /\ A.size = 2
    /\ Elems(mem, A)[1] # Elems(mem, A)[2]

\* C11: after a successful Resize(n) the size is n, the elements below
\* min(old size, n) are what they were, the elements from the old size on
\* are value-constructed, and the capacity (and the block) is unchanged when
\* n <= old capacity and exactly n otherwise.
C11_ResizeContract ==
    [][ (last'.op = "Resize" /\ last'.out = "ok") =>
           LET n == last'.arg
               keep == IF A.size < n THEN A.size ELSE n
           IN /\ A'.size = n
              /\ \A i \in 1..keep : Elems(mem', A')[i] = Elems(mem, A)[i]
              /\ \A i \in (A.size + 1)..n : Elems(mem', A')[i] = LiveSlot(0)
              /\ IF n <= A.data.cap THEN A'.data = A.data
                 ELSE A'.data.cap = n ]_vars

\* A Resize from one element to three, beyond the capacity, has succeeded.
C11_Witness ==
    /\ last.op = "Resize" /\ last.out = "ok" /\ last.path = "realloc"
    /\ last.arg = 3 /\ A.size = 3 /\ A.data.cap = 3
    /\ Elems(mem, A) = <<LiveSlot(2), LiveSlot(0), LiveSlot(0)>>

\* C12: when the value construction of a new trailing element throws in
\* Resize, the call throws, the size and the elements [0, size) are what they
\* were, and every element built in the call has been destroyed: the slots
\* from size on hold no object.
C12_ResizeGrowthRollsBack ==
    [][ (last'.op = "Resize" /\ last'.f2) =>
           /\ last'.out = "throw"
           /\ A'.size = A.size
           /\ Elems(mem', A') = Elems(mem, A)
           /\ \A i \in (A'.size + 1)..A'.data.cap :
                 ~IsObj(mem'.blk[A'.data.buf].slot[i])
           /\ mem'.leak = mem.leak ]_vars

\* A Resize from one element to three has thrown while building a new element,
\* after the Vector had moved to a new block.
C12_Witness ==
    /\ last.op = "Resize" /\ last.f2 /\ last.path = "realloc"
    /\ last.arg = 3 /\ A.size = 1 /\ A.data.cap = 3

RECURSIVE PowerOfTwoFrom(_, _)
PowerOfTwoFrom(k, n) == IF k >= n THEN k ELSE PowerOfTwoFrom(2 * k, n)

\* The smallest power of two that is >= n.
SmallestPowerOfTwo(n) == PowerOfTwoFrom(1, n)

\* C13: after n >= 1 consecutive PushBack calls on a default-constructed
\* Vector, n <= Capacity() <= the smallest power of two >= n; the capacity
\* changes only in a PushBack that finds size == capacity, and becomes
\* max(1, 2 x capacity).
C13_AmortizedGrowth ==
    /\ [](Len(abs) >= 1 =>
             /\ A.data.cap >= Len(abs)
             /\ A.data.cap <= SmallestPowerOfTwo(Len(abs)))
    /\ [][ A'.data.cap # A.data.cap =>
              /\ last'.op = "PushBack"
              /\ A.size = A.data.cap
              /\ A'.data.cap = (IF 2 * A.data.cap > 1 THEN 2 * A.data.cap ELSE 1)
       ]_vars

\* Three calls have been made and the capacity is four.
C13_Witness ==
    /\ last.op = "PushBack" /\ last.path = "realloc"
    /\ Len(abs) = 3 /\ A.size = 3 /\ A.data.cap = 4

\* C14: PopBack on an empty Vector is signalled as an index out of range
\* is: the call does not return, and the Vector is not left with another
\* size.
C14_PopBackOnEmptySignalled ==
    [][ /\ (last'.op = "IndexAssign" /\ last'.arg >= A.size) =>
              (last'.out = "abort" /\ vec' = vec)
        /\ (last'.op = "PopBack" /\ A.size = 0) =>
              (last'.out = "abort" /\ vec' = vec) ]_vars

\* C15: when the constructor of the new element throws in Emplace, the
\* call throws and the Vector and the heap are what they were, on each path:
\* at the end in place, in the middle in place, and reallocating.  Stated of
\* every call that throws with no transfer having failed, and of the call
\* with a throwing constructor at every position of every Vector reached.
C15_ConstructorFailureChangesNothing ==
    /\ [][ (IsEmplace(last') /\ last'.out = "throw" /\ ~last'.f1 /\ ~last'.f2)
              => (vec' = vec /\ mem' = mem) ]_vars
    /\ []((Defined /\ A.alive /\ CanGrow("A")) =>
             \A pos \in 0..A.size, val \in Values, g \in Garbage("A") :
                LET r == Emplace(mem, A, pos, val, [NoFail EXCEPT !.ctor = TRUE], g)
                IN r.out = "throw" /\ r.v = A /\ r.m = mem)

\* An insertion in place into the middle of three elements has thrown
\* before anything was shifted.
C15_Witness ==
    /\ last.op = "Insert" /\ last.out = "throw" /\ last.path = "inplace"
    /\ ~last.f1 /\ ~last.f2
    /\ last.arg = 1 /\ A.size = 3 /\ A.data.cap = 4
    /\ WellFormed(mem, A)

\* C16: for an element type that can be copied and whose move may throw,
\* the relocations of Emplace (the transfers into a new block and the shift
\* in place) and of Reserve copy: no element is left moved-from by them.
C16_RelocationByCopy ==
    [][ (T.copyable /\ ~T.nothrowMove
            /\ (IsEmplace(last') \/ last'.op = "Reserve")) =>
           \A b \in BlockIds : \A i \in 1..Len(mem.blk[b].slot) :
              (/\ mem'.blk[b].used
               /\ i <= Len(mem'.blk[b].slot)
               /\ mem'.blk[b].slot[i].st = "moved")
                 => mem.blk[b].slot[i].st = "moved" ]_vars

\* C17: a Reserve(n) with n > Capacity() in which the allocation throws, or
\* in which the copy of an element throws (element type relocated by copy),
\* throws and leaves the Vector and the heap as they were: what was copied
\* is destroyed and the new block released.
C17_ReserveStrong ==
    /\ [][ (last'.op = "Reserve" /\ last'.f1) => last'.out = "throw" ]_vars
    /\ [][ (last'.op = "Reserve" /\ last'.out = "throw"
               /\ (last'.f1 => (T.copyable /\ ~T.nothrowMove)))
              => (vec' = vec /\ mem' = mem) ]_vars
    /\ []((Defined /\ A.alive) =>
             \A n \in (A.data.cap + 1)..MaxCap, g \in Garbage("A") :
                LET r == Reserve(mem, A, n, [NoFail EXCEPT !.alloc = TRUE], g)
                IN r.out = "throw" /\ r.v = A /\ r.m = mem)

\* A Reserve(3) on two elements of a type relocated by copy has thrown in
\* the transfer.
C17_Witness ==
    /\ last.op = "Reserve" /\ last.out = "throw" /\ last.f1
    /\ T.copyable /\ ~T.nothrowMove
    /\ last.arg = 3 /\ A.size = 2 /\ A.data.cap = 2
    /\ Elems(mem, A)[1] # Elems(mem, A)[2]

\* C18: after a copy assignment B = A that returns, B has the size and the
\* elements of A, and A is what it was; with A.size <= B.capacity B keeps its
\* block and capacity, the common prefix is assigned to, the excess of B is
\* destroyed or the rest of A copy-constructed, so that no object is built
\* over or lost; otherwise the capacity of B is exactly A.size; a
\* self-assignment changes nothing.
C18_CopyAssignContract ==
    [][ (last'.op = "CopyAssign" /\ last'.out = "ok") =>
           IF last'.v = last'.src THEN vec' = vec /\ mem' = mem
           ELSE /\ B'.size = A.size
                /\ Elems(mem', B') = Elems(mem, A)
                /\ A' = A /\ Elems(mem', A') = Elems(mem, A)
                /\ WellFormed(mem', B')
                /\ mem'.leak = mem.leak /\ mem'.ub = mem.ub
                /\ IF A.size <= B.data.cap
                   THEN B'.data = B.data /\ last'.path = "inplace"
                   ELSE B'.data.cap = A.size /\ last'.path = "realloc" ]_vars

\* A two-element "A" has been assigned in place to a "B" of capacity two.
C18_Witness ==
    /\ last.op = "CopyAssign" /\ last.out = "ok" /\ last.path = "inplace"
    /\ last.v = "B" /\ last.src = "A"
    /\ A.size = 2 /\ B.size = 2 /\ B.data.cap = 2
    /\ Elems(mem, A)[1] # Elems(mem, A)[2]

\* The objects that own block b.
Owners(b) ==
    {v \in VecNames : vec[v].alive /\ vec[v].data.buf = b}
        \cup {r \in RawNames : raw[r].alive /\ raw[r].data.buf = b}

\* C19: every allocated block is owned by exactly one object, with the
\* capacity it was allocated with, and a block that is not allocated by none
\* (no block is leaked, none is held after its release); no block is released
\* twice.  A RawMemory moved from holds nullptr and capacity 0, its block has
\* gone to the destination, and the move assignment has released the block
\* the destination held; a self move assignment changes nothing.
C19_ExclusiveOwnership ==
    /\ [](\A b \in BlockIds :
             /\ Cardinality(Owners(b)) = (IF mem.blk[b].used THEN 1 ELSE 0)
             /\ \A v \in VecNames : (vec[v].alive /\ vec[v].data.buf = b) =>
                   vec[v].data.cap = Len(mem.blk[b].slot)
             /\ \A r \in RawNames : (raw[r].alive /\ raw[r].data.buf = b) =>
                   raw[r].data.cap = Len(mem.blk[b].slot))
    /\ [](~mem.dfree)
    /\ [][ last'.op \in {"RawMoveConstruct", "RawMoveAssign"} =>
              LET d == last'.v
                  s == last'.src
              IN IF d = s THEN raw' = raw /\ mem' = mem
                 ELSE /\ raw'[s] = SomeRawMemory(NullMemory)
                      /\ raw'[d] = SomeRawMemory(raw[s].data)
                      /\ (raw[d].alive /\ raw[d].data.buf # 0) =>
                            ~mem'.blk[raw[d].data.buf].used ]_vars

\* A RawMemory holding a block has been move-assigned another's block.
C19_Witness ==
    /\ last.op = "RawMoveAssign" /\ last.v = "R1" /\ last.src = "R2"
    /\ raw["R1"].data.cap = 2 /\ raw["R1"].data.buf = 2
    /\ ~mem.blk[1].used

\* C20: Insert(pos, v[i]) and PushBack(v[i]) insert the value v[i] had
\* before the call, at pos, and keep every other element in its order, for
\* every pos and i, in place and reallocating.
C20_AliasedArgument ==
    [][ (last'.op \in {"InsertRef", "PushBackRef"} /\ last'.out = "ok") =>
           LET pos == last'.arg
               x == Elems(mem, A)[last'.val + 1]
           IN /\ last'.ret = pos
              /\ Elems(mem', A') = InsertAt(Elems(mem, A), pos, x)
              /\ WellFormed(mem', A') ]_vars

\* v.Insert(v.begin(), v[2]) has shifted three elements in place, the one
\* referred to among them, and the element before it had another value.
C20_Witness ==
    /\ last.op = "InsertRef" /\ last.out = "ok" /\ last.path = "inplace"
    /\ last.arg = 0 /\ last.val = 2 /\ A.size = 4
    /\ Elems(mem, A)[1] = Elems(mem, A)[4]
    /\ Elems(mem, A)[1] # Elems(mem, A)[3]

====
